---- MODULE Spec2Model ----
(***************************************************************************)
(* ai-finance-agent: the tool-calling loop of FinanceAgent.analyze         *)
(* (src/app/agent.py), the tool registry it dispatches to                  *)
(* (src/app/tools.py) and the HTTP handler that guards it (src/main.py).   *)
(*                                                                         *)
(* Modelling conventions                                                   *)
(*  - A Python str that the code only passes around is a TLA+ string; the  *)
(*    request's query, which the handler strips, is a sequence of          *)
(*    one-character strings so that str.strip() can be computed.           *)
(*  - A Python dict of tool arguments is a record with a `keys` field (the *)
(*    keys present) next to the values, so that args["ticker"] on a dict   *)
(*    without that key raises, as it does in Python.                       *)
(*  - A tool's result dict is a record whose `has_error` field says        *)
(*    whether the dict has an "error" key; json.dumps(result) is injective *)
(*    on these records and is kept as the record itself.                   *)
(*  - time.time(), latency_seconds and estimated_cost_usd are left out:    *)
(*    they are floating-point read-outs that no transition depends on.     *)
(***************************************************************************)
EXTENDS Integers, Sequences, FiniteSets, TLC

VARIABLES
    \* ---- FinanceAgent.analyze: the locals of the invocation in progress
    pc,                   \* "idle" | "llm" | "exec" | "done" | "failed" (+ "exec_beyond")
    messages,             \* agent.py:53 the conversation sent to the LLM
    tools_called,         \* agent.py:54 the audit trail
    total_input_tokens,   \* agent.py:55
    total_output_tokens,  \* agent.py:56
    response,             \* agent.py:59 the response being handled
    idx,                  \* agent.py:72 position of the for loop in response.content
    tool_results,         \* agent.py:71
    result,               \* agent.py:96 the returned dict
    failure,              \* the exception that left analyze, "" when none
    llm_calls,            \* number of client.messages.create calls made
    responses,            \* history: the responses those calls returned
    llm,                  \* which scripted LLM answers: "any" | "short"
    \* ---- main.py: the process
    agent,                \* main.py:25 the global handle, None or an instance number
    constructed,          \* number of FinanceAgent objects constructed
    api_key,              \* whether ANTHROPIC_API_KEY is set in the environment
    req,                  \* the /api/analyze requests in flight
    running,              \* the request whose handler occupies the event loop
    \* ---- tools.py: one direct call of compare_stocks
    cmp_pc, cmp_tickers, cmp_result

agent_vars == <<pc, messages, tools_called, total_input_tokens, total_output_tokens,
                response, idx, tool_results, result, failure, llm_calls, responses>>
server_vars == <<agent, constructed, api_key, req, running>>
cmp_vars == <<cmp_pc, cmp_tickers, cmp_result>>
vars == <<agent_vars, llm, server_vars, cmp_vars>>

-----------------------------------------------------------------------------
(* Bounds of the model *)

\* LLM round-trips explored in one analyze invocation
MaxRounds == 3
\* longest query string explored by the HTTP handler
MaxQueryLen == 2
\* longest tickers list handed to compare_stocks
MaxTickers == 6

None == 0

-----------------------------------------------------------------------------
(* The market data source behind yfinance: what a lookup of a ticker does. *)

Tickers == {"AAPL", "msft", "ZZZZ", "DOWN"}

\* "data": listed, history and info are there; "empty": unknown symbol, the
\* history frame is empty and info has no fields; "raises": the fetch throws.
Market(t) ==
    CASE t = "AAPL" -> "data"
      [] t = "msft" -> "data"
      [] t = "ZZZZ" -> "empty"
      [] OTHER      -> "raises"

\* str.upper() on the ticker universe
Upper(t) == IF t = "msft" THEN "MSFT" ELSE t

NoResult == [has_error |-> FALSE, error |-> "", kind |-> "none", ticker |-> "",
             stocks_compared |-> 0, comparisons |-> <<>>]

ErrorResult(msg) == [NoResult EXCEPT !.has_error = TRUE, !.error = msg, !.kind = "error"]

DataResult(kind, t) == [NoResult EXCEPT !.kind = kind, !.ticker = Upper(t)]

UpstreamError == "upstream fetch failed"

get_stock_price(t) ==
    CASE Market(t) = "raises" -> ErrorResult(UpstreamError)
      [] Market(t) = "empty"  -> ErrorResult("No data found for ticker '" \o t \o "'")
      [] OTHER                -> DataResult("quote", t)

get_company_fundamentals(t) ==
    CASE Market(t) = "raises" -> ErrorResult(UpstreamError)
      [] OTHER                -> DataResult("fundamentals", t)

get_price_history(t, period) ==
    CASE Market(t) = "raises" -> ErrorResult(UpstreamError)
      [] Market(t) = "empty"  -> ErrorResult("No history for '" \o t \o "'")
      [] OTHER                -> DataResult("history:" \o period, t)

get_analyst_recommendations(t) ==
    CASE Market(t) = "raises" -> ErrorResult(UpstreamError)
      [] OTHER                -> DataResult("analysts", t)

\* tickers[:5]
MaxCompared == 5
Truncate(tickers) == SubSeq(tickers, 1, IF Len(tickers) < MaxCompared THEN Len(tickers) ELSE MaxCompared)

\* one entry of compare_stocks' comparisons list (tools.py:178-188)
Comparison(t) ==
    [ticker |-> Upper(t),
     name   |-> IF Market(t) = "data" THEN "listed company" ELSE "N/A",
     priced |-> Market(t) = "data"]

compare_stocks(tickers) ==
    LET used == Truncate(tickers) IN
    IF \E i \in 1..Len(used) : Market(used[i]) = "raises"
    THEN ErrorResult(UpstreamError)
    ELSE [NoResult EXCEPT !.kind = "comparison",
                          !.stocks_compared = Len(used),
                          !.comparisons = [i \in 1..Len(used) |-> Comparison(used[i])]]

-----------------------------------------------------------------------------
(* TOOL_FUNCTIONS: name -> lambda args: ... *)

ToolNames == {"get_stock_price", "get_company_fundamentals", "get_price_history",
              "get_analyst_recommendations", "compare_stocks"}

Args(keys, ticker, tickers, period) ==
    [keys |-> keys, ticker |-> ticker, tickers |-> tickers, period |-> period]

Return(v) == [raised |-> FALSE, exc |-> "", value |-> v]
Raise(e) == [raised |-> TRUE, exc |-> e, value |-> NoResult]

\* TOOL_FUNCTIONS[name](args): args["k"] raises KeyError when k is absent,
\* args.get("period", "1mo") does not.
ToolCall(name, args) ==
    CASE name = "get_stock_price" ->
            IF "ticker" \in args.keys THEN Return(get_stock_price(args.ticker))
            ELSE Raise("KeyError: 'ticker'")
      [] name = "get_company_fundamentals" ->
            IF "ticker" \in args.keys THEN Return(get_company_fundamentals(args.ticker))
            ELSE Raise("KeyError: 'ticker'")
      [] name = "get_price_history" ->
            IF "ticker" \in args.keys
            THEN Return(get_price_history(args.ticker,
                        IF "period" \in args.keys THEN args.period ELSE "1mo"))
            ELSE Raise("KeyError: 'ticker'")
      [] name = "get_analyst_recommendations" ->
            IF "ticker" \in args.keys THEN Return(get_analyst_recommendations(args.ticker))
            ELSE Raise("KeyError: 'ticker'")
      [] name = "compare_stocks" ->
            IF "tickers" \in args.keys THEN Return(compare_stocks(args.tickers))
            ELSE Raise("KeyError: 'tickers'")

-----------------------------------------------------------------------------
(* The LLM's responses *)

NoArgs == Args({}, "", <<>>, "")

TextBlock(t) == [type |-> "text", text |-> t, id |-> "", name |-> "", input |-> NoArgs]
ToolUse(id, name, input) ==
    [type |-> "tool_use", text |-> "", id |-> id, name |-> name, input |-> input]

\* The content blocks an LLM response is built from: text, a well-formed
\* request, a request for an unlisted ticker, a request whose arguments lack
\* the required key, and a request for a tool that is not registered. Two
\* call ids are in use, so a response can hold distinct or repeated ids.
Blocks ==
    { TextBlock("Analysis."),
      ToolUse("toolu_1", "get_stock_price", Args({"ticker"}, "AAPL", <<>>, "")),
      ToolUse("toolu_2", "get_price_history", Args({"ticker"}, "ZZZZ", <<>>, "")),
      ToolUse("toolu_1", "compare_stocks", NoArgs),
      ToolUse("toolu_2", "get_stock_news", Args({"ticker"}, "AAPL", <<>>, "")) }

Contents == {<<>>} \cup {<<a>> : a \in Blocks} \cup {<<a, b>> : a, b \in Blocks}

StopReasons == {"tool_use", "end_turn", "max_tokens"}

ToolUseCount(content) == Cardinality({i \in 1..Len(content) : content[i].type = "tool_use"})

\* response.usage as the API reports it for a response of this shape
UsageFor(content) ==
    [input_tokens |-> 2 + ToolUseCount(content), output_tokens |-> 1 + Len(content)]

Responses ==
    {[stop_reason |-> s, content |-> c, usage |-> UsageFor(c)] : s \in StopReasons, c \in Contents}

\* A short script for the requests that come through the HTTP handler.
ShortResponses ==
    {r \in Responses :
        \/ /\ r.stop_reason = "tool_use"
           /\ Len(r.content) = 2
           /\ r.content[1].type = "text"
           /\ r.content[2].name = "get_stock_price"
        \/ /\ r.stop_reason = "tool_use"
           /\ Len(r.content) = 1
           /\ r.content[1].name \in {"compare_stocks", "get_stock_news"}
        \/ /\ r.stop_reason = "end_turn"
           /\ Len(r.content) = 1
           /\ r.content[1].type = "text"}

Script == IF llm = "any" THEN Responses ELSE ShortResponses

NoResponse == [stop_reason |-> "", content |-> <<>>, usage |-> [input_tokens |-> 0, output_tokens |-> 0]]
NoReturn == [analysis |-> "", tools_called |-> <<>>,
             metrics |-> [total_tools_called |-> 0, input_tokens |-> 0,
                          output_tokens |-> 0, total_tokens |-> 0]]

-----------------------------------------------------------------------------
(* FinanceAgent.analyze *)

\* agent.py:70 deciding on the blocks instead of the stop reason
IsToolUse_ByContent(r) == ToolUseCount(r.content) > 0

\* agent.py:70
IsToolUse(r) == r.stop_reason = "tool_use"

\* agent.py:90-93: the text of every block that has one
RECURSIVE FinalText(_)
FinalText(content) ==
    IF content = <<>> THEN ""
    ELSE (IF Head(content).type = "text" THEN Head(content).text ELSE "") \o FinalText(Tail(content))

\* agent.py:80,83
ToolRecord(block, success) == [tool |-> block.name, input |-> block.input, success |-> success]

\* agent.py:82 with the name left out of the message
UnknownToolResult_NoName(name) == ErrorResult("Unknown tool")

\* agent.py:82
UnknownToolResult(name) == ErrorResult("Unknown tool: " \o name)

\* agent.py:85 keyed by the tool's name instead of the call id
ToolResultBlock_ByName(block, res) ==
    [type |-> "tool_result", tool_use_id |-> block.name, content |-> res]

\* agent.py:85
ToolResultBlock(block, res) == [type |-> "tool_result", tool_use_id |-> block.id, content |-> res]

\* agent.py:80,83 inserting at the front instead of appending
AppendRecord_Front(trail, rec) == <<rec>> \o trail

\* agent.py:80,83 tools_called.append
AppendRecord(trail, rec) == Append(trail, rec)

\* agent.py:52-56: the locals at the start of an invocation
StartAnalyze(user_query) ==
    /\ pc' = "llm"
    /\ messages' = <<[role |-> "user", content |-> user_query]>>
    /\ tools_called' = <<>>
    /\ total_input_tokens' = 0
    /\ total_output_tokens' = 0
    /\ response' = NoResponse
    /\ idx' = 0
    /\ tool_results' = <<>>
    /\ result' = NoReturn
    /\ failure' = ""
    /\ llm_calls' = 0
    /\ responses' = <<>>

\* no invocation in progress
AnalyzeIdle ==
    /\ pc = "idle"
    /\ messages = <<>>
    /\ tools_called = <<>>
    /\ total_input_tokens = 0
    /\ total_output_tokens = 0
    /\ response = NoResponse
    /\ idx = 0
    /\ tool_results = <<>>
    /\ result = NoReturn
    /\ failure = ""
    /\ llm_calls = 0
    /\ responses = <<>>

\* agent.py:59-65 raises (network, auth, rate limit): the exception leaves analyze
LLMError ==
    /\ pc = "llm"
    /\ llm_calls < MaxRounds
    /\ llm_calls' = llm_calls + 1
    /\ pc' = "failed"
    /\ failure' = "llm_error"
    /\ UNCHANGED <<messages, tools_called, total_input_tokens, total_output_tokens,
                   response, idx, tool_results, result, responses>>
    /\ UNCHANGED <<llm, server_vars, cmp_vars>>

\* agent.py:59-71: a response arrives and the loop takes the tool branch
LLMToolUse ==
    /\ pc = "llm"
    /\ llm_calls < MaxRounds
    /\ \E r \in Script :
        /\ IsToolUse(r)
        /\ llm_calls' = llm_calls + 1
        /\ responses' = Append(responses, r)
        /\ total_input_tokens' = total_input_tokens + r.usage.input_tokens
        /\ total_output_tokens' = total_output_tokens + r.usage.output_tokens
        /\ response' = r
        /\ idx' = 1
        /\ tool_results' = <<>>
        /\ pc' = "exec"
    /\ UNCHANGED <<messages, tools_called, result, failure>>
    /\ UNCHANGED <<llm, server_vars, cmp_vars>>

\* agent.py:59-68, 89-107: a response arrives and the loop returns
LLMFinal ==
    /\ pc = "llm"
    /\ llm_calls < MaxRounds
    /\ \E r \in Script :
        /\ ~IsToolUse(r)
        /\ llm_calls' = llm_calls + 1
        /\ responses' = Append(responses, r)
        /\ total_input_tokens' = total_input_tokens + r.usage.input_tokens
        /\ total_output_tokens' = total_output_tokens + r.usage.output_tokens
        /\ response' = r
        /\ result' = [analysis |-> FinalText(r.content),
                      tools_called |-> tools_called,
                      metrics |-> [total_tools_called |-> Len(tools_called),
                                   input_tokens |-> total_input_tokens',
                                   output_tokens |-> total_output_tokens',
                                   total_tokens |-> total_input_tokens' + total_output_tokens']]
        /\ pc' = "done"
    /\ UNCHANGED <<messages, tools_called, idx, tool_results, failure>>
    /\ UNCHANGED <<llm, server_vars, cmp_vars>>

\* agent.py:72-73: a block that is not a tool_use block
SkipBlock ==
    /\ pc = "exec"
    /\ idx <= Len(response.content)
    /\ response.content[idx].type # "tool_use"
    /\ idx' = idx + 1
    /\ UNCHANGED <<pc, messages, tools_called, total_input_tokens, total_output_tokens,
                   response, tool_results, result, failure, llm_calls, responses>>
    /\ UNCHANGED <<llm, server_vars, cmp_vars>>

\* agent.py:78-80, 85: a registered tool runs and returns
ExecKnownTool ==
    /\ pc = "exec"
    /\ idx <= Len(response.content)
    /\ LET block == response.content[idx]
           call == ToolCall(block.name, block.input) IN
        /\ block.type = "tool_use"
        /\ block.name \in ToolNames
        /\ ~call.raised
        /\ tools_called' = AppendRecord(tools_called, ToolRecord(block, ~call.value.has_error))
        /\ tool_results' = Append(tool_results, ToolResultBlock(block, call.value))
    /\ idx' = idx + 1
    /\ UNCHANGED <<pc, messages, total_input_tokens, total_output_tokens,
                   response, result, failure, llm_calls, responses>>
    /\ UNCHANGED <<llm, server_vars, cmp_vars>>

\* agent.py:79: the registered tool's lambda raises; nothing in analyze catches it
ExecToolRaises ==
    /\ pc = "exec"
    /\ idx <= Len(response.content)
    /\ LET block == response.content[idx]
           call == ToolCall(block.name, block.input) IN
        /\ block.type = "tool_use"
        /\ block.name \in ToolNames
        /\ call.raised
        /\ failure' = call.exc
    /\ pc' = "failed"
    /\ UNCHANGED <<messages, tools_called, total_input_tokens, total_output_tokens,
                   response, idx, tool_results, result, llm_calls, responses>>
    /\ UNCHANGED <<llm, server_vars, cmp_vars>>

\* agent.py:81-85: the name is not in TOOL_FUNCTIONS
ExecUnknownTool ==
    /\ pc = "exec"
    /\ idx <= Len(response.content)
    /\ LET block == response.content[idx] IN
        /\ block.type = "tool_use"
        /\ block.name \notin ToolNames
        /\ tools_called' = AppendRecord(tools_called, ToolRecord(block, FALSE))
        /\ tool_results' = Append(tool_results, ToolResultBlock(block, UnknownToolResult(block.name)))
    /\ idx' = idx + 1
    /\ UNCHANGED <<pc, messages, total_input_tokens, total_output_tokens,
                   response, result, failure, llm_calls, responses>>
    /\ UNCHANGED <<llm, server_vars, cmp_vars>>

\* agent.py:87-88: the for loop is over, both turns are appended, next round
AppendTurns ==
    /\ pc = "exec"
    /\ idx > Len(response.content)
    /\ messages' = messages \o <<[role |-> "assistant", content |-> response.content],
                                 [role |-> "user", content |-> tool_results]>>
    /\ pc' = "llm"
    /\ UNCHANGED <<tools_called, total_input_tokens, total_output_tokens,
                   response, idx, tool_results, result, failure, llm_calls, responses>>
    /\ UNCHANGED <<llm, server_vars, cmp_vars>>

AnalyzeStep ==
    \/ LLMError
    \/ LLMToolUse
    \/ LLMFinal
    \/ SkipBlock
    \/ ExecKnownTool
    \/ ExecToolRaises
    \/ ExecUnknownTool
    \/ AppendTurns

-----------------------------------------------------------------------------
(* Rounds past the horizon MaxRounds.  The loop of agent.py:58 has no exit  *)
(* but the return of line 96 and an exception, so it goes on for as long as *)
(* the LLM answers tool_use; these rounds are taken but no longer recorded  *)
(* in messages, tools_called and the token totals.                          *)

\* agent.py:59-71 past the horizon: one more tool_use response
LLMToolUseBeyond ==
    /\ pc = "llm"
    /\ llm_calls = MaxRounds
    /\ pc' = "exec_beyond"
    /\ UNCHANGED <<messages, tools_called, total_input_tokens, total_output_tokens,
                   response, idx, tool_results, result, failure, llm_calls, responses>>
    /\ UNCHANGED <<llm, server_vars, cmp_vars>>

\* agent.py:72-88 past the horizon: its tools run, its turns are appended
RoundBeyond ==
    /\ pc = "exec_beyond"
    /\ pc' = "llm"
    /\ UNCHANGED <<messages, tools_called, total_input_tokens, total_output_tokens,
                   response, idx, tool_results, result, failure, llm_calls, responses>>
    /\ UNCHANGED <<llm, server_vars, cmp_vars>>

\* agent.py:79 past the horizon: one of its tools raises
ToolRaisesBeyond ==
    /\ pc = "exec_beyond"
    /\ pc' = "failed"
    /\ failure' = "KeyError"
    /\ UNCHANGED <<messages, tools_called, total_input_tokens, total_output_tokens,
                   response, idx, tool_results, result, llm_calls, responses>>
    /\ UNCHANGED <<llm, server_vars, cmp_vars>>

\* agent.py:89-107 past the horizon: a final response, the loop returns
LLMFinalBeyond ==
    /\ pc = "llm"
    /\ llm_calls = MaxRounds
    /\ pc' = "done"
    /\ UNCHANGED <<messages, tools_called, total_input_tokens, total_output_tokens,
                   response, idx, tool_results, result, failure, llm_calls, responses>>
    /\ UNCHANGED <<llm, server_vars, cmp_vars>>

\* agent.py:59 past the horizon: the LLM call raises
LLMErrorBeyond ==
    /\ pc = "llm"
    /\ llm_calls = MaxRounds
    /\ pc' = "failed"
    /\ failure' = "llm_error"
    /\ UNCHANGED <<messages, tools_called, total_input_tokens, total_output_tokens,
                   response, idx, tool_results, result, llm_calls, responses>>
    /\ UNCHANGED <<llm, server_vars, cmp_vars>>

-----------------------------------------------------------------------------
(* main.py: POST /api/analyze *)

Requests == {"r1", "r2"}

Chars == {" ", "q"}
Whitespace == {" "}

QueryStrings == UNION {[1..n -> Chars] : n \in 0..MaxQueryLen}

\* The JSON bodies: no "query" key, a "query" that is not a string, a string.
Bodies ==
    {[kind |-> "missing", query |-> <<>>], [kind |-> "null", query |-> <<>>]}
        \cup {[kind |-> "str", query |-> s] : s \in QueryStrings}

\* str.strip(): drop the leading, then the trailing whitespace
RECURSIVE LStrip(_)
LStrip(s) == IF s # <<>> /\ Head(s) \in Whitespace THEN LStrip(Tail(s)) ELSE s
RECURSIVE RStrip(_)
RStrip(s) ==
    IF s # <<>> /\ s[Len(s)] \in Whitespace THEN RStrip(SubSeq(s, 1, Len(s) - 1)) ELSE s
\* main.py:44 without the strip()
Strip_Identity(s) == s

Strip(s) == RStrip(LStrip(s))

\* main.py:44 body.get("query", "").strip(), for a body whose query is a str or absent
Query(body) == Strip(IF body.kind = "missing" THEN <<>> ELSE body.query)

\* main.py:30 without the `is None` test
NeedsConstruction_Always == TRUE

\* main.py:30
NeedsConstruction == agent = None

NewRequest == [pc |-> "new", body |-> [kind |-> "missing", query |-> <<>>],
               status |-> 0, error |-> "", agent_used |-> None, built |-> FALSE,
               llm_calls |-> 0, tokens |-> 0]

\* main.py:41-43: the handler starts and suspends in `await request.json()`.
\* The handlers are coroutines of one event loop: none starts or resumes
\* while another one runs, and analyze (which never awaits) runs to its end.
Arrive(r) ==
    /\ running = "none"
    /\ req[r].pc = "new"
    /\ req' = [req EXCEPT ![r].pc = "awaiting"]
    /\ UNCHANGED <<agent_vars, llm, agent, constructed, api_key, running, cmp_vars>>

\* main.py:43-44, 51-52: the body arrives; None.strip() raises AttributeError,
\* caught by `except Exception`
BadBody(r) ==
    /\ running = "none"
    /\ req[r].pc = "awaiting"
    /\ \E b \in Bodies :
        /\ b.kind = "null"
        /\ req' = [req EXCEPT ![r].pc = "done", ![r].body = b, ![r].status = 500,
                              ![r].error = "Analysis failed: AttributeError"]
    /\ UNCHANGED <<agent_vars, llm, agent, constructed, api_key, running, cmp_vars>>

\* main.py:43-46
RejectEmpty(r) ==
    /\ running = "none"
    /\ req[r].pc = "awaiting"
    /\ \E b \in Bodies :
        /\ b.kind # "null"
        /\ Query(b) = <<>>
        /\ req' = [req EXCEPT ![r].pc = "done", ![r].body = b, ![r].status = 400,
                              ![r].error = "Query is required"]
    /\ UNCHANGED <<agent_vars, llm, agent, constructed, api_key, running, cmp_vars>>

\* main.py:43-47 get_agent(), agent.py:38-40 raises ValueError, main.py:49-50
ConfigError(r) ==
    /\ running = "none"
    /\ req[r].pc = "awaiting"
    /\ NeedsConstruction
    /\ ~api_key
    /\ \E b \in Bodies :
        /\ b.kind # "null"
        /\ Query(b) # <<>>
        /\ req' = [req EXCEPT ![r].pc = "done", ![r].body = b, ![r].status = 500,
                              ![r].error = "ANTHROPIC_API_KEY environment variable is required"]
    /\ UNCHANGED <<agent_vars, llm, agent, constructed, api_key, running, cmp_vars>>

\* main.py:43-47 get_agent() (main.py:28-32, agent.py:37-42) and the call of analyze
BeginAnalyze(r) ==
    /\ running = "none"
    /\ req[r].pc = "awaiting"
    /\ NeedsConstruction => api_key
    /\ agent' = IF NeedsConstruction THEN constructed + 1 ELSE agent
    /\ constructed' = IF NeedsConstruction THEN constructed + 1 ELSE constructed
    /\ \E b \in Bodies :
        /\ b.kind # "null"
        /\ Query(b) # <<>>
        /\ req' = [req EXCEPT ![r].pc = "running", ![r].body = b, ![r].agent_used = agent',
                              ![r].built = NeedsConstruction]
        /\ StartAnalyze(Query(b))
    /\ running' = r
    /\ UNCHANGED <<llm, api_key, cmp_vars>>

\* main.py:48 analyze returned, or main.py:51-52 it raised; its locals are gone
Respond(r) ==
    /\ running = r
    /\ pc \in {"done", "failed"}
    /\ req' = [req EXCEPT
                ![r].pc = "done",
                ![r].status = IF pc = "done" THEN 200 ELSE 500,
                ![r].error = IF pc = "done" THEN "" ELSE "Analysis failed: " \o failure,
                ![r].llm_calls = llm_calls,
                ![r].tokens = IF pc = "done" THEN result.metrics.total_tokens ELSE 0]
    /\ running' = "none"
    /\ pc' = "idle"
    /\ messages' = <<>>
    /\ tools_called' = <<>>
    /\ total_input_tokens' = 0
    /\ total_output_tokens' = 0
    /\ response' = NoResponse
    /\ idx' = 0
    /\ tool_results' = <<>>
    /\ result' = NoReturn
    /\ failure' = ""
    /\ llm_calls' = 0
    /\ responses' = <<>>
    /\ UNCHANGED <<llm, agent, constructed, api_key, cmp_vars>>

Handler(r) ==
    \/ Arrive(r)
    \/ BadBody(r)
    \/ RejectEmpty(r)
    \/ ConfigError(r)
    \/ BeginAnalyze(r)
    \/ Respond(r)

-----------------------------------------------------------------------------
(* tools.py: a direct call of compare_stocks *)

TickerLists == UNION {[1..n -> Tickers] : n \in 0..MaxTickers}

CompareCall ==
    /\ cmp_pc = "call"
    /\ cmp_result' = compare_stocks(cmp_tickers)
    /\ cmp_pc' = "returned"
    /\ UNCHANGED <<agent_vars, llm, server_vars, cmp_tickers>>

-----------------------------------------------------------------------------
(* Specifications *)

UserQueries == {<<"q">>}

ServerIdle ==
    /\ agent = None
    /\ constructed = 0
    /\ api_key = TRUE
    /\ req = <<>>
    /\ running = "none"

CompareIdle ==
    /\ cmp_pc = "idle"
    /\ cmp_tickers = <<>>
    /\ cmp_result = NoResult

\* One analyze invocation, the LLM free to answer anything.
Init ==
    /\ \E q \in UserQueries :
        /\ pc = "llm"
        /\ messages = <<[role |-> "user", content |-> q]>>
    /\ tools_called = <<>>
    /\ total_input_tokens = 0
    /\ total_output_tokens = 0
    /\ response = NoResponse
    /\ idx = 0
    /\ tool_results = <<>>
    /\ result = NoReturn
    /\ failure = ""
    /\ llm_calls = 0
    /\ responses = <<>>
    /\ llm = "any"
    /\ ServerIdle
    /\ CompareIdle

Next == AnalyzeStep

Spec == Init /\ [][Next]_vars

\* The same invocation followed past the horizon; the interpreter runs the
\* loop for as long as it has a step to take.
LiveNext ==
    \/ AnalyzeStep
    \/ LLMToolUseBeyond
    \/ RoundBeyond
    \/ ToolRaisesBeyond
    \/ LLMFinalBeyond
    \/ LLMErrorBeyond

LiveSpec == Init /\ [][LiveNext]_vars /\ WF_vars(LiveNext)

\* The server process: concurrent requests on one event loop.
ServerInit ==
    /\ AnalyzeIdle
    /\ llm = "short"
    /\ agent = None
    /\ constructed = 0
    /\ api_key \in BOOLEAN
    /\ req = [r \in Requests |-> NewRequest]
    /\ running = "none"
    /\ CompareIdle

ServerNext ==
    \/ \E r \in Requests : Handler(r)
    \/ AnalyzeStep

ServerSpec == ServerInit /\ [][ServerNext]_vars

\* compare_stocks called on every list of tickers.
CompareInit ==
    /\ AnalyzeIdle
    /\ llm = "any"
    /\ ServerIdle
    /\ cmp_pc = "call"
    /\ cmp_tickers \in TickerLists
    /\ cmp_result = NoResult

CompareNext == CompareCall

CompareSpec == CompareInit /\ [][CompareNext]_vars

-----------------------------------------------------------------------------
(* Properties *)

IsPrefix(s, t) == Len(s) <= Len(t) /\ SubSeq(t, 1, Len(s)) = s

\* the tool_use blocks of a content, in order
ToolRequests(content) == SelectSeq(content, LAMBDA b : b.type = "tool_use")

Last(s) == s[Len(s)]

Ended == pc \in {"done", "failed"}

\* C1: every assistant turn of the conversation is followed at once by a user
\* turn holding one tool_result per tool_use block of that assistant turn, in
\* order and with the same call id; a turn of tool_results only ever follows
\* the assistant turn that requested them; and when the next LLM call is about
\* to be made, every response received so far has its two turns in place.
C1_ResultsMatchRequests ==
    /\ \A i \in 2..Len(messages) :
        /\ messages[i].role = "assistant" =>
            /\ i + 1 <= Len(messages)
            /\ messages[i + 1].role = "user"
            /\ LET asked == ToolRequests(messages[i].content)
                   answered == messages[i + 1].content IN
                /\ Len(answered) = Len(asked)
                /\ \A j \in 1..Len(asked) :
                    /\ answered[j].type = "tool_result"
                    /\ answered[j].tool_use_id = asked[j].id
        /\ messages[i].role = "user" =>
            /\ messages[i - 1].role = "assistant"
            /\ \A j \in 1..Len(messages[i].content) :
                \E k \in 1..Len(messages[i - 1].content) :
                    /\ messages[i - 1].content[k].type = "tool_use"
                    /\ messages[i - 1].content[k].id = messages[i].content[j].tool_use_id
    /\ pc = "llm" =>
        /\ Len(messages) = 1 + 2 * Len(responses)
        /\ \A k \in 1..Len(responses) : messages[2 * k].content = responses[k].content

\* C1: two rounds are answered, one of them with two requests under distinct
\* ids, and the loop is about to call the LLM again.
C1_Witness ==
    /\ pc = "llm"
    /\ Len(messages) = 5
    /\ \E i \in 2..Len(messages) :
        /\ messages[i].role = "assistant"
        /\ Len(ToolRequests(messages[i].content)) = 2
        /\ messages[i + 1].content[1].tool_use_id # messages[i + 1].content[2].tool_use_id

\* C2: every analyze invocation eventually returns or fails.
C2_Terminates == <>Ended

\* C3: executing a request for a registered tool never leaves the loop: the
\* step records it (success = false when the call failed), appends its
\* tool_result (an error payload when the call failed) and goes on to the
\* next block.
C3_RegisteredToolNeverRaises ==
    [][(/\ pc = "exec"
        /\ idx <= Len(response.content)
        /\ response.content[idx].type = "tool_use"
        /\ response.content[idx].name \in ToolNames)
       => (/\ pc' = "exec"
           /\ idx' = idx + 1
           /\ failure' = ""
           /\ Len(tools_called') = Len(tools_called) + 1
           /\ Len(tool_results') = Len(tool_results) + 1
           /\ Last(tool_results').tool_use_id = response.content[idx].id
           /\ Last(tools_called').success = ~Last(tool_results').content.has_error)]_vars

\* C4: the step that handles a request for an unregistered tool appends the
\* record {tool, input, success: false}, appends the tool_result
\* {"error": "Unknown tool: <name>"} under the request's id and moves on to
\* the next block without returning or raising; analyze never fails at such a
\* request; and in every answered round the result of such a request is that
\* payload.
C4_UnknownToolAbsorbed ==
    /\ [][(/\ pc = "exec"
           /\ idx <= Len(response.content)
           /\ response.content[idx].type = "tool_use"
           /\ response.content[idx].name \notin ToolNames)
          => (/\ tools_called' = Append(tools_called,
                    [tool |-> response.content[idx].name,
                     input |-> response.content[idx].input,
                     success |-> FALSE])
              /\ tool_results' = Append(tool_results,
                    [type |-> "tool_result",
                     tool_use_id |-> response.content[idx].id,
                     content |-> ErrorResult("Unknown tool: " \o response.content[idx].name)])
              /\ pc' = "exec"
              /\ idx' = idx + 1
              /\ failure' = "")]_vars
    /\ []((pc = "failed" /\ failure # "llm_error") => response.content[idx].name \in ToolNames)
    /\ [](\A i \in 2..Len(messages) :
            messages[i].role = "assistant" =>
                LET asked == ToolRequests(messages[i].content) IN
                \A j \in 1..Len(asked) :
                    asked[j].name \notin ToolNames =>
                        /\ messages[i + 1].content[j].content.has_error
                        /\ messages[i + 1].content[j].content.error = "Unknown tool: " \o asked[j].name)

\* C4: a round held an unregistered request followed by a registered one, both
\* were answered, and the next LLM call was made and answered.
C4_Witness ==
    /\ Len(responses) >= 2
    /\ Len(messages) >= 3
    /\ Len(messages[2].content) = 2
    /\ messages[2].content[1].name \notin ToolNames
    /\ messages[2].content[2].name \in ToolNames
    /\ messages[3].content[1].content.error = "Unknown tool: get_stock_news"
    /\ ~messages[3].content[2].content.has_error
    /\ Len(tools_called) >= 2
    /\ ~tools_called[1].success
    /\ tools_called[2].success

RECURSIVE SumInput(_)
SumInput(rs) == IF rs = <<>> THEN 0 ELSE Head(rs).usage.input_tokens + SumInput(Tail(rs))
RECURSIVE SumOutput(_)
SumOutput(rs) == IF rs = <<>> THEN 0 ELSE Head(rs).usage.output_tokens + SumOutput(Tail(rs))
RECURSIVE RequestCount(_)
RequestCount(rs) == IF rs = <<>> THEN 0 ELSE ToolUseCount(Head(rs).content) + RequestCount(Tail(rs))

\* the accounting of a returned analysis: k tool_use responses then a final one
ReturnAccounting ==
    pc = "done" =>
        LET k == Len(responses) - 1 IN
        /\ llm_calls = k + 1
        /\ \A i \in 1..k : responses[i].stop_reason = "tool_use"
        /\ Len(result.tools_called) = RequestCount(SubSeq(responses, 1, k))
        /\ result.metrics.input_tokens = SumInput(responses)
        /\ result.metrics.output_tokens = SumOutput(responses)
        /\ result.metrics.total_tokens = SumInput(responses) + SumOutput(responses)

\* C5: with an LLM that answers every call (k tool_use responses, then a final
\* one), analyze ends by returning, after k+1 round-trips, with one
\* tools_called entry per request of the first k responses and the token
\* totals of the k+1 responses.
C5_ScriptedRunReturns ==
    /\ (pc = "failed" => failure = "llm_error")
    /\ ReturnAccounting

RECURSIVE AllRequests(_)
AllRequests(rs) ==
    IF rs = <<>> THEN <<>> ELSE ToolRequests(Head(rs).content) \o AllRequests(Tail(rs))

Processed ==
    IF responses = <<>> THEN <<>>
    ELSE LET before == AllRequests(SubSeq(responses, 1, Len(responses) - 1))
             cur == Last(responses).content IN
         CASE pc = "done" -> before
           [] pc = "exec" \/ (pc = "failed" /\ failure # "llm_error") ->
                before \o ToolRequests(SubSeq(cur, 1, idx - 1))
           [] OTHER -> before \o ToolRequests(cur)

\* C7: tools_called names, in order, exactly the requests processed so far
\* (tool and input of each); a step only ever appends to it; and the returned
\* tools_called is that list, total_tools_called its length.
C7_TrailIsRequestsInOrder ==
    /\ [](/\ Len(tools_called) = Len(Processed)
          /\ \A i \in 1..Len(tools_called) :
                /\ tools_called[i].tool = Processed[i].name
                /\ tools_called[i].input = Processed[i].input
          /\ pc = "done" =>
                /\ result.tools_called = tools_called
                /\ result.metrics.total_tools_called = Len(result.tools_called))
    /\ [][IsPrefix(tools_called, tools_called')]_vars

\* C7: analyze returned a trail of at least three entries of different tools,
\* collected over two rounds.
C7_Witness ==
    /\ pc = "done"
    /\ Len(responses) = 3
    /\ Len(result.tools_called) >= 3
    /\ result.tools_called[1].tool # result.tools_called[2].tool
    /\ ToolUseCount(responses[1].content) >= 1
    /\ ToolUseCount(responses[2].content) >= 1

\* a body whose query is missing, empty or only whitespace
IsBlank(body) ==
    \/ body.kind = "missing"
    \/ body.kind = "str" /\ \A i \in 1..Len(body.query) : body.query[i] \in Whitespace

\* C8: a request whose query is missing, empty or only whitespace never
\* reaches get_agent or analyze: it constructs and uses no agent, makes no
\* LLM call, records no tokens, and is answered 400 "Query is required".
C8_BlankQueryRejected ==
    \A r \in Requests :
        (req[r].pc \notin {"new", "awaiting"} /\ IsBlank(req[r].body)) =>
            /\ req[r].pc = "done"
            /\ running # r
            /\ req[r].agent_used = None
            /\ ~req[r].built
            /\ req[r].llm_calls = 0
            /\ req[r].tokens = 0
            /\ req[r].pc = "done" => (req[r].status = 400 /\ req[r].error = "Query is required")

\* C8: a whitespace-only query was rejected while the other request was
\* analysed and answered.
C8_Witness ==
    \E r, o \in Requests :
        /\ req[r].pc = "done"
        /\ req[r].body.kind = "str"
        /\ req[r].body.query # <<>>
        /\ IsBlank(req[r].body)
        /\ req[r].status = 400
        /\ req[o].status = 200
        /\ req[o].llm_calls > 0

\* C9: compare_stocks returns at most 5 comparisons, and with fewer than 5
\* valid tickers in the input the list's length and stocks_compared are the
\* number of tickers that resolved.
C9_ComparesResolvedOnly ==
    cmp_pc = "returned" =>
        LET resolved == {i \in 1..Len(Truncate(cmp_tickers)) : Market(cmp_tickers[i]) = "data"}
            valid == {cmp_tickers[i] : i \in {j \in 1..Len(cmp_tickers) : Market(cmp_tickers[j]) = "data"}} IN
        /\ Len(cmp_result.comparisons) <= 5
        /\ Cardinality(valid) < 5 =>
            /\ Len(cmp_result.comparisons) = Cardinality(resolved)
            /\ cmp_result.stocks_compared = Cardinality(resolved)

\* compare_stocks never returns more than 5 comparisons
CompareAtMostFive == Len(cmp_result.comparisons) <= 5

\* C10: at most one FinanceAgent is ever constructed, the handle holds it from
\* then on, and every request that got an agent got that one.
C10_SingleAgent ==
    /\ [](/\ constructed <= 1
          /\ (agent = None) <=> (constructed = 0)
          /\ Cardinality({r \in Requests : req[r].built}) = constructed
          /\ \A r \in Requests :
                /\ req[r].agent_used \in {None, agent}
                /\ req[r].pc = "running" => req[r].agent_used # None
                /\ req[r].status = 200 => req[r].agent_used # None)
    /\ [][agent # None => agent' = agent]_vars

\* C10: both requests were analysed on the one instance.
C10_Witness ==
    /\ constructed = 1
    /\ \A r \in Requests : req[r].status = 200 /\ req[r].agent_used = agent

====
